---- MODULE Spec2Model ----
(***************************************************************************)
(* Shape and data-dependence model of models/layer.py: Chomp1d,           *)
(* TemporalBlock, TemporalConvNet, TextEncoderTCN, BasicBlock, ResBlock   *)
(* and init_weight.                                                       *)
(*                                                                         *)
(* A tensor of rank 3 is a record                                          *)
(*    shape : <<d1, d2, d3>>     (batch, channels, time) for a Conv1d     *)
(*    dep   : dep[i][j] is the set of time indices of the operation's     *)
(*            input that element [:, i, j] is computed from               *)
(* Indices are 1-based here (position t of the code is t+1).  Every layer *)
(* treats the batch entries independently, so dep carries no batch index. *)
(***************************************************************************)
EXTENDS Integers, Sequences, FiniteSets, TLC

\* ---------------------------------------------------------------- bounds
MaxCh == 2
MaxLevels == 2
MaxBuildLevels == 3
MaxKernel == 3
MaxLen == 8
MaxBatch == 1

\* Length bound, feature bound of the text encoder's input and output, and the
\* paddings BasicBlock is built with.
MaxSeq == 2
MaxWordF == 1
MaxPad == 2
MaxStride == 2
MaxDil == 2

\* first_dilation=None (an absent padding) is written -1; Conv1d rejects it
\* as it rejects any padding that is not a non-negative integer.
None == 0 - 1
Err == [shape |-> <<>>, dep |-> <<>>]

Max2(a, b) == IF a >= b THEN a ELSE b
Min2(a, b) == IF a <= b THEN a ELSE b

RECURSIVE Pow2(_)
Pow2(n) == IF n = 0 THEN 1 ELSE 2 * Pow2(n - 1)

\* ------------------------------------------------------- tensor primitives
Batch(x) == x.shape[1]
Chan(x) == x.shape[2]
Time(x) == x.shape[3]

\* An input tensor of the given shape whose time axis is axis `taxis` (2 or 3).
InputTensor(b, d2, d3, taxis) ==
    [shape |-> <<b, d2, d3>>,
     dep   |-> [i \in 1..d2 |-> [j \in 1..d3 |-> {IF taxis = 3 THEN j ELSE i}]]]

\* Python's x[:stop] on a sequence of length n: a negative stop counts from
\* the end, and -0 is 0.
SliceStop(n, stop) == IF stop < 0 THEN Max2(n + stop, 0) ELSE Min2(stop, n)

\* Variant: the padding counted on one side only.
ConvOutLenOneSided(L, k, s, p, d) == ((L + p - d * (k - 1) - 1) \div s) + 1

\* torch.nn.Conv1d output length, floor((L + 2p - d(k-1) - 1)/s) + 1.
ConvOutLen(L, k, s, p, d) == ((L + 2 * p - d * (k - 1) - 1) \div s) + 1

\* The input positions (1-based) tap m of the kernel reads for output j;
\* positions outside 1..L fall in the zero padding.
ConvTap(j, m, s, p, d) == (j - 1) * s + m * d - p + 1

\* nn.Conv1d(cin, cout, k, stride=s, padding=p, dilation=d) applied to x.
\* Raises (Err) on a channel mismatch, on padding=None and when the padded
\* input is shorter than the dilated kernel.
Conv1d(x, cin, cout, k, s, p, d) ==
    IF p < 0 THEN Err
    ELSE IF Chan(x) # cin THEN Err
    ELSE IF Time(x) + 2 * p < d * (k - 1) + 1 THEN Err
    ELSE LET L    == Time(x)
             Lout == ConvOutLen(L, k, s, p, d)
             row(j) == UNION {x.dep[ci][ConvTap(j, m, s, p, d)] :
                              <<ci, m>> \in {cm \in (1..Chan(x)) \X (0..(k - 1)) :
                                   ConvTap(j, cm[2], s, p, d) \in 1..L}}
         IN  [shape |-> <<Batch(x), cout, Lout>>,
              dep   |-> [co \in 1..cout |-> [j \in 1..Lout |-> row(j)]]]

\* Variant: the chomp taken from the leading edge, x[:, :, chomp_size:].
Chomp1dLeading(x, chomp_size) ==
    LET n == Time(x) - Min2(chomp_size, Time(x))
    IN  [shape |-> <<Batch(x), Chan(x), n>>,
         dep   |-> [c \in 1..Chan(x) |-> [j \in 1..n |-> x.dep[c][j + Time(x) - n]]]]

\* Chomp1d.forward: x[:, :, : -chomp_size]
Chomp1d(x, chomp_size) ==
    LET n == SliceStop(Time(x), 0 - chomp_size)
    IN  [shape |-> <<Batch(x), Chan(x), n>>,
         dep   |-> [c \in 1..Chan(x) |-> [j \in 1..n |-> x.dep[c][j]]]]

\* ReLU, LeakyReLU and Dropout act on each element alone.
Elementwise(x) == x

\* Broadcasting of one dimension: equal sizes, or one of them is 1.
BroadcastOk(a, b) == a = b \/ a = 1 \/ b = 1
BroadcastDim(a, b) == IF a = 1 THEN b ELSE a
BIdx(n, i) == IF n = 1 THEN 1 ELSE i

\* a + b with broadcasting; Err when the shapes do not broadcast.
Add(a, b) ==
    IF \E q \in 1..3 : ~BroadcastOk(a.shape[q], b.shape[q]) THEN Err
    ELSE LET sh == [q \in 1..3 |-> BroadcastDim(a.shape[q], b.shape[q])]
         IN  [shape |-> sh,
              dep   |-> [i \in 1..sh[2] |-> [j \in 1..sh[3] |->
                           a.dep[BIdx(Chan(a), i)][BIdx(Time(a), j)]
                           \cup b.dep[BIdx(Chan(b), i)][BIdx(Time(b), j)]]]]

IsErr(x) == Len(x.shape) = 0

\* a += b: the result must have a's shape.
IAdd(a, b) ==
    LET r == Add(a, b) IN IF ~IsErr(r) /\ r.shape = a.shape THEN r ELSE Err

\* x.transpose(1, 2)
Transpose12(x) ==
    [shape |-> <<x.shape[1], x.shape[3], x.shape[2]>>,
     dep   |-> [j \in 1..x.shape[3] |-> [i \in 1..x.shape[2] |-> x.dep[i][j]]]]

\* nn.Linear(in_features, out_features) on the last axis.
Linear(x, in_features, out_features) ==
    IF x.shape[3] # in_features THEN Err
    ELSE [shape |-> <<x.shape[1], x.shape[2], out_features>>,
          dep   |-> [i \in 1..x.shape[2] |-> [f \in 1..out_features |->
                        UNION {x.dep[i][j] : j \in 1..x.shape[3]}]]]

\* ------------------------------------------------------------ constructors
\* TemporalBlock.__init__: the layers of self.net and the optional projection.
TemporalBlock(n_inputs, n_outputs, k, stride, dilation, padding) ==
    [conv1 |-> [cin |-> n_inputs, cout |-> n_outputs, k |-> k, s |-> stride,
                p |-> padding, d |-> dilation],
     chomp1 |-> padding,
     conv2 |-> [cin |-> n_outputs, cout |-> n_outputs, k |-> k, s |-> stride,
                p |-> padding, d |-> dilation],
     chomp2 |-> padding,
     downsample |-> n_inputs # n_outputs,
     n_inputs |-> n_inputs,
     n_outputs |-> n_outputs]

\* Variant: every level chained from the raw input channel count.
TcnLevelUnchained(i, n_in, channels, k) ==
    TemporalBlock(n_in, channels[i + 1], k, 1, Pow2(i), (k - 1) * Pow2(i))

\* Variant: the dilation left at 1 on every level.
TcnLevelUndilated(i, n_in, channels, k) ==
    TemporalBlock(IF i = 0 THEN n_in ELSE channels[i], channels[i + 1], k, 1, 1, k - 1)

\* One iteration of the loop of TemporalConvNet.__init__, for level i (0-based).
TcnLevel(i, n_in, channels, k) ==
    LET dilation_size == Pow2(i)
        in_channels   == IF i = 0 THEN n_in ELSE channels[i]
        out_channels  == channels[i + 1]
    IN  TemporalBlock(in_channels, out_channels, k, 1, dilation_size,
                      (k - 1) * dilation_size)

ApplyConv(x, c) == Conv1d(x, c.cin, c.cout, c.k, c.s, c.p, c.d)

\* res = x if self.downsample is None else self.downsample(x)
Residual(block, x) ==
    IF block.downsample
    THEN Conv1d(x, block.n_inputs, block.n_outputs, 1, 1, 0, 1)
    ELSE x

\* The values a feature of the decoder's output takes in the model.
Vals == {0, 1}

RECURSIVE SeqMax(_)
SeqMax(q) == IF Len(q) = 1 THEN q[1] ELSE Max2(q[1], SeqMax(Tail(q)))

\* torch.max(y, dim=1)[0] of a (B, T, F) array of values: the (B, F) array of
\* the largest value along axis 1.  An empty axis raises.
MaxDim1(y, B, T, F) ==
    [b \in 1..B |-> [f \in 1..F |-> SeqMax([t \in 1..T |-> y[b][t][f]])]]

\* ------------------------------------------------------------------ state
VARIABLES
    op,            \* which entry point runs: "tcn", "build", "text", "basic", "res", "init"
    pc,            \* position inside it
    num_inputs,    \* TemporalConvNet.__init__ arguments
    num_channels,
    kernel_size,
    layers,        \* the list TemporalConvNet.__init__ builds
    x0,            \* the input of forward
    x,             \* the tensor flowing through forward
    blk,           \* the input of the TemporalBlock being run
    res,           \* the residual / shortcut operand
    lvl,           \* index into self.network
    netdep,        \* netdep[t]: input positions the stack's position t reads
    word_f,        \* args.word_f
    decoder,       \* the nn.Linear of TextEncoderTCN
    yval,          \* values of y = self.decoder(y)
    pooled,        \* second component of TextEncoderTCN.forward's result
    bb,            \* BasicBlock.__init__ arguments and layers
    channel,       \* ResBlock.__init__ argument
    m              \* the module init_weight is applied to

vars == <<op, pc, num_inputs, num_channels, kernel_size, layers, x0, x, blk, res,
          lvl, netdep, word_f, decoder, yval, pooled, bb, channel, m>>

tcnVars == <<num_inputs, num_channels, kernel_size, layers, blk, lvl, netdep>>
textVars == <<word_f, decoder, yval, pooled>>
otherVars == <<bb, channel, m>>

RECURSIVE SeqsUpTo(_, _)
SeqsUpTo(S, n) ==
    IF n = 0 THEN {<<>>}
    ELSE LET shorter == SeqsUpTo(S, n - 1)
         IN  shorter \cup {Append(q, e) : q \in {r \in shorter : Len(r) = n - 1}, e \in S}

NoTensor == Err
NoBB == [inplanes |-> 0, planes |-> 0, ker_size |-> 0, stride |-> 0,
         dilation |-> 0, first_dilation |-> 0, downsample |-> FALSE,
         training |-> FALSE]
NoModule == [kind |-> "none", weight |-> <<>>, bias |-> <<>>, has_bias |-> FALSE]
NoDecoder == [in_features |-> 0, out_features |-> 0, bias |-> <<>>]

\* A call of TemporalConvNet(num_inputs, num_channels, kernel_size) followed by
\* forward on a (B, num_inputs, L) tensor.
InitTcn ==
    /\ op = "tcn"
    /\ pc = "tcn_init"
    /\ num_inputs \in 1..MaxCh
    /\ num_channels \in SeqsUpTo(1..MaxCh, MaxLevels)
    /\ kernel_size \in 1..MaxKernel
    /\ \E B \in 1..MaxBatch, L \in 1..MaxLen : x0 = InputTensor(B, num_inputs, L, 3)
    /\ word_f = 0 /\ decoder = NoDecoder /\ yval = <<>> /\ pooled = <<>>
    /\ bb = NoBB /\ channel = 0 /\ m = NoModule

\* TextEncoderTCN(args, embed_size, kernel_size) followed by forward on a
\* (B, T, embed_size) tensor; num_channels = [args.hidden_size].
InitText ==
    /\ op = "text"
    /\ pc = "tcn_init"
    /\ num_inputs \in 1..MaxCh
    /\ \E hidden_size \in 1..MaxCh : num_channels = <<hidden_size>>
    /\ kernel_size \in 1..MaxKernel
    /\ word_f \in 1..MaxWordF
    /\ \E B \in 1..MaxBatch, T \in 1..MaxSeq : x0 = InputTensor(B, T, num_inputs, 2)
    /\ decoder = NoDecoder /\ yval = <<>> /\ pooled = <<>>
    /\ bb = NoBB /\ channel = 0 /\ m = NoModule

NoTcn ==
    /\ num_inputs = 0 /\ num_channels = <<>> /\ kernel_size = 0
    /\ word_f = 0 /\ decoder = NoDecoder /\ yval = <<>> /\ pooled = <<>>

\* BasicBlock(inplanes, planes, ker_size, stride, downsample, dilation=...,
\* first_dilation=...) followed by forward on a (B, inplanes, L) tensor;
\* `training` is the nn.Module flag BatchNorm1d reads.
InitBasic ==
    /\ op = "basic"
    /\ pc = "bb_forward"
    /\ bb \in [inplanes : 1..MaxCh, planes : 1..MaxCh, ker_size : 1..MaxKernel,
               stride : 1..MaxStride, dilation : 1..MaxDil,
               first_dilation : {None} \cup (0..MaxPad),
               downsample : BOOLEAN, training : BOOLEAN]
    /\ \E B \in 1..MaxBatch, L \in 1..MaxLen : x0 = InputTensor(B, bb.inplanes, L, 3)
    /\ NoTcn /\ channel = 0 /\ m = NoModule

\* ResBlock(channel) followed by forward on a (B, channel, L) tensor.
InitRes ==
    /\ op = "res"
    /\ pc = "rb_forward"
    /\ channel \in 1..MaxCh
    /\ \E B \in 1..MaxBatch, L \in 1..MaxLen : x0 = InputTensor(B, channel, L, 3)
    /\ NoTcn /\ bb = NoBB /\ m = NoModule

\* Module kinds init_weight may meet (net.apply(init_weight) visits every
\* submodule), and the parameter values of the model.
Kinds == {"Conv1d", "Linear", "ConvTranspose1d", "BatchNorm1d", "LeakyReLU", "Sequential"}
WVals == {0 - 1, 0, 1}
MaxParam == 2
Params == {q \in SeqsUpTo(WVals, MaxParam) : Len(q) >= 1}

\* Which kinds own a weight, and which of those may be built without bias.
HasWeight(kind) == kind \in {"Conv1d", "Linear", "ConvTranspose1d", "BatchNorm1d"}

InitModule ==
    /\ op = "init"
    /\ pc = "init_weight"
    /\ \E kind \in Kinds :
          IF HasWeight(kind)
          THEN \E w \in {q \in Params : Len(q) = MaxParam}, hb \in BOOLEAN :
                 \E b \in IF hb THEN Params ELSE {<<>>} :
                    m = [kind |-> kind, weight |-> w, bias |-> b, has_bias |-> hb]
          ELSE m = [kind |-> kind, weight |-> <<>>, bias |-> <<>>, has_bias |-> FALSE]
    /\ x0 = NoTensor
    /\ NoTcn /\ bb = NoBB /\ channel = 0

\* A call of TemporalConvNet(num_inputs, num_channels, kernel_size) alone.
InitBuild ==
    /\ op = "build"
    /\ pc = "tcn_init"
    /\ num_inputs \in 1..MaxCh
    /\ num_channels \in SeqsUpTo(1..MaxCh, MaxBuildLevels)
    /\ kernel_size \in 1..MaxKernel
    /\ x0 = NoTensor
    /\ word_f = 0 /\ decoder = NoDecoder /\ yval = <<>> /\ pooled = <<>>
    /\ bb = NoBB /\ channel = 0 /\ m = NoModule

Fresh ==
    /\ layers = <<>> /\ x = NoTensor /\ blk = NoTensor /\ res = NoTensor
    /\ lvl = 0 /\ netdep = <<>>

Init == Fresh /\ (InitTcn \/ InitRes \/ InitModule)
InitBuildOnly == Fresh /\ InitBuild
InitTextOnly == Fresh /\ InitText
InitBasicOnly == Fresh /\ InitBasic

\* ------------------------------------------- TemporalConvNet.__init__
\* for i in range(num_levels): layers += [TemporalBlock(...)]
TcnInitLevel ==
    /\ pc = "tcn_init"
    /\ Len(layers) < Len(num_channels)
    /\ layers' = Append(layers, TcnLevel(Len(layers), num_inputs, num_channels, kernel_size))
    /\ UNCHANGED <<op, pc, num_inputs, num_channels, kernel_size, x0, x, blk, res,
                   lvl, netdep, textVars, otherVars>>

\* self.network = nn.Sequential(*layers); for the text encoder the decoder
\* is built next and TextEncoderTCN.init_weights zeroes its bias.
TcnInitDone ==
    /\ pc = "tcn_init"
    /\ Len(layers) = Len(num_channels)
    /\ IF op = "text"
       THEN /\ decoder' = [in_features |-> num_channels[Len(num_channels)],
                           out_features |-> word_f,
                           bias |-> [f \in 1..word_f |-> 0]]
            /\ pc' = "text_forward"
       ELSE /\ decoder' = decoder
            /\ pc' = IF op = "build" THEN "built" ELSE "tcn_forward"
    /\ UNCHANGED <<op, tcnVars, x0, x, res, word_f, yval, pooled, otherVars>>

\* ---------------------------------------------- TemporalConvNet.forward
IdentityDep(t) == [c \in 1..Chan(t) |-> [j \in 1..Time(t) |-> {j}]]

TcnForward ==
    /\ pc = "tcn_forward"
    /\ x' = x0
    /\ netdep' = [t \in 1..Time(x0) |-> {t}]
    /\ lvl' = 1
    /\ pc' = "block"
    /\ UNCHANGED <<op, num_inputs, num_channels, kernel_size, layers, x0, blk, res,
                   textVars, otherVars>>

\* nn.Sequential: the next TemporalBlock, or the end of the stack.
TcnReturn ==
    /\ pc = "block"
    /\ lvl > Len(layers)
    /\ pc' = IF op = "text" THEN "text_transpose" ELSE "done"
    /\ UNCHANGED <<op, tcnVars, x0, x, res, textVars, otherVars>>

\* TemporalBlock.forward is entered with x; the dependence of the block's
\* tensors is counted from this input on.
BlockEnter ==
    /\ pc = "block"
    /\ lvl <= Len(layers)
    /\ blk' = [x EXCEPT !.dep = IdentityDep(x)]
    /\ x' = blk'
    /\ pc' = "conv1"
    /\ UNCHANGED <<op, num_inputs, num_channels, kernel_size, layers, x0, res, lvl,
                   netdep, textVars, otherVars>>

\* One layer of self.net: x moves on, or the layer raises.
NetStep(here, next, out) ==
    /\ pc = here
    /\ IF IsErr(out)
       THEN pc' = "error" /\ x' = x
       ELSE pc' = next /\ x' = out
    /\ UNCHANGED <<op, tcnVars, x0, res, textVars, otherVars>>

Conv1Step == NetStep("conv1", "chomp1", ApplyConv(x, layers[lvl].conv1))
Chomp1Step == NetStep("chomp1", "relu1", Chomp1d(x, layers[lvl].chomp1))
Relu1Step == NetStep("relu1", "dropout1", Elementwise(x))
Dropout1Step == NetStep("dropout1", "conv2", Elementwise(x))
Conv2Step == NetStep("conv2", "chomp2", ApplyConv(x, layers[lvl].conv2))
Chomp2Step == NetStep("chomp2", "relu2", Chomp1d(x, layers[lvl].chomp2))
Relu2Step == NetStep("relu2", "dropout2", Elementwise(x))
Dropout2Step == NetStep("dropout2", "downsample", Elementwise(x))

\* res = x if self.downsample is None else self.downsample(x)
DownsampleStep ==
    /\ pc = "downsample"
    /\ LET r == Residual(layers[lvl], blk)
       IN  IF IsErr(r)
           THEN pc' = "error" /\ res' = res
           ELSE pc' = "add" /\ res' = r
    /\ UNCHANGED <<op, tcnVars, x0, x, textVars, otherVars>>

\* The stack's dependence after a block whose output is `out`.
Compose(nd, out) ==
    [t \in 1..Time(out) |->
        UNION {nd[u] : u \in UNION {out.dep[c][t] : c \in 1..Chan(out)}}]

\* return self.relu(out + res)
AddStep ==
    /\ pc = "add"
    /\ LET r == Elementwise(Add(x, res))
       IN  IF IsErr(r)
           THEN pc' = "error" /\ UNCHANGED <<x, netdep, lvl>>
           ELSE /\ pc' = "block"
                /\ x' = r
                /\ netdep' = Compose(netdep, r)
                /\ lvl' = lvl + 1
    /\ UNCHANGED <<op, num_inputs, num_channels, kernel_size, layers, x0, blk, res,
                   textVars, otherVars>>

TcnNext ==
    \/ TcnInitLevel \/ TcnInitDone \/ TcnForward \/ TcnReturn \/ BlockEnter
    \/ Conv1Step \/ Chomp1Step \/ Relu1Step \/ Dropout1Step
    \/ Conv2Step \/ Chomp2Step \/ Relu2Step \/ Dropout2Step
    \/ DownsampleStep \/ AddStep

\* ------------------------------------------------ TextEncoderTCN.forward
\* self.tcn(input.transpose(1, 2)): the transposed input enters the stack.
TextForward ==
    /\ pc = "text_forward"
    /\ x' = Transpose12(x0)
    /\ netdep' = [t \in 1..Time(x') |-> {t}]
    /\ lvl' = 1
    /\ pc' = "block"
    /\ UNCHANGED <<op, num_inputs, num_channels, kernel_size, layers, x0, blk, res,
                   textVars, otherVars>>

\* y = self.tcn(...).transpose(1, 2)
TextTranspose ==
    /\ pc = "text_transpose"
    /\ x' = Transpose12(x)
    /\ pc' = "text_decoder"
    /\ UNCHANGED <<op, tcnVars, x0, res, textVars, otherVars>>

\* y = self.decoder(y); the values of y depend on the weights and are any.
TextDecoder ==
    /\ pc = "text_decoder"
    /\ LET r == Linear(x, decoder.in_features, decoder.out_features)
       IN  IF IsErr(r)
           THEN pc' = "error" /\ UNCHANGED <<x, yval>>
           ELSE /\ pc' = "text_max"
                /\ x' = r
                /\ yval' \in [1..r.shape[1] -> [1..r.shape[2] -> [1..r.shape[3] -> Vals]]]
    /\ UNCHANGED <<op, tcnVars, x0, res, word_f, decoder, pooled, otherVars>>

\* return y, torch.max(y, dim=1)[0]
TextMax ==
    /\ pc = "text_max"
    /\ IF x.shape[2] = 0
       THEN pc' = "error" /\ pooled' = pooled
       ELSE /\ pc' = "done"
            /\ pooled' = [shape |-> <<x.shape[1], x.shape[3]>>,
                           val |-> MaxDim1(yval, x.shape[1], x.shape[2], x.shape[3])]
    /\ UNCHANGED <<op, tcnVars, x0, x, res, word_f, decoder, yval, otherVars>>

\* ----------------------------------------------------- BasicBlock.forward
\* nn.BatchNorm1d(num_features): in training mode the statistics of a channel
\* are taken over the batch and time axes, and a single value per channel
\* raises.
BatchNorm1d(t, num_features, training) ==
    IF Chan(t) # num_features THEN Err
    ELSE IF training /\ Batch(t) * Time(t) = 1 THEN Err
    ELSE IF training
         THEN [t EXCEPT !.dep = [c \in 1..Chan(t) |-> [j \in 1..Time(t) |->
                                   UNION {t.dep[c][u] : u \in 1..Time(t)}]]]
         ELSE t

\* shortcut = x
BBForward ==
    /\ pc = "bb_forward"
    /\ x' = x0
    /\ res' = x0
    /\ pc' = "bb_conv1"
    /\ UNCHANGED <<op, tcnVars, x0, textVars, otherVars>>

BBConv1 == NetStep("bb_conv1", "bb_bn1",
                   Conv1d(x, bb.inplanes, bb.planes, bb.ker_size, bb.stride,
                          bb.first_dilation, bb.dilation))
BBBn1 == NetStep("bb_bn1", "bb_act1", BatchNorm1d(x, bb.planes, bb.training))
BBAct1 == NetStep("bb_act1", "bb_conv2", Elementwise(x))
BBConv2 == NetStep("bb_conv2", "bb_bn2",
                   Conv1d(x, bb.planes, bb.planes, bb.ker_size, 1,
                          bb.ker_size \div 2, bb.dilation))
BBBn2 == NetStep("bb_bn2", "bb_downsample", BatchNorm1d(x, bb.planes, bb.training))

\* self.downsample: nn.Sequential(nn.Conv1d(...), norm_layer(planes)) or None
BBShortcut(cfg, t) ==
    IF cfg.downsample
    THEN LET c == Conv1d(t, cfg.inplanes, cfg.planes, cfg.ker_size, cfg.stride,
                         cfg.first_dilation, cfg.dilation)
         IN  IF IsErr(c) THEN Err ELSE BatchNorm1d(c, cfg.planes, cfg.training)
    ELSE t

\* if self.downsample is not None: shortcut = self.downsample(shortcut)
BBDownsample ==
    /\ pc = "bb_downsample"
    /\ LET r == BBShortcut(bb, res)
       IN  IF IsErr(r)
           THEN pc' = "error" /\ res' = res
           ELSE pc' = "bb_add" /\ res' = r
    /\ UNCHANGED <<op, tcnVars, x0, x, textVars, otherVars>>

\* x += shortcut
BBAdd == NetStep("bb_add", "bb_act2", IAdd(x, res))
BBAct2 == NetStep("bb_act2", "done", Elementwise(x))

BasicNext ==
    \/ BBForward \/ BBConv1 \/ BBBn1 \/ BBAct1 \/ BBConv2 \/ BBBn2
    \/ BBDownsample \/ BBAdd \/ BBAct2

\* ------------------------------------------------------- ResBlock.forward
\* residual = x
RBForward ==
    /\ pc = "rb_forward"
    /\ x' = x0
    /\ res' = x0
    /\ pc' = "rb_conv1"
    /\ UNCHANGED <<op, tcnVars, x0, textVars, otherVars>>

\* Variant: the convolution built without padding.
ResConvUnpadded(t, ch) == Conv1d(t, ch, ch, 3, 1, 0, 1)

\* nn.Conv1d(channel, channel, kernel_size=3, stride=1, padding=1)
ResConv(t, ch) == Conv1d(t, ch, ch, 3, 1, 1, 1)

RBConv1 == NetStep("rb_conv1", "rb_act", ResConv(x, channel))
RBAct == NetStep("rb_act", "rb_conv2", Elementwise(x))
RBConv2 == NetStep("rb_conv2", "rb_add", ResConv(x, channel))
\* out += residual; return out
RBAdd == NetStep("rb_add", "done", IAdd(x, res))

ResNext == RBForward \/ RBConv1 \/ RBAct \/ RBConv2 \/ RBAdd

\* ------------------------------------------------------------- init_weight
\* isinstance(m, nn.Conv1d) or isinstance(m, nn.Linear) or
\* isinstance(m, nn.ConvTranspose1d)
IsInitTarget(mod) == mod.kind \in {"Conv1d", "Linear", "ConvTranspose1d"}

\* Variant: the bias filled as in the line left commented out, fill_(0.01)
\* (a non-zero constant).
FillBias(b) == [i \in 1..Len(b) |-> 1]

\* nn.init.constant_(m.bias, 0)
ZeroBias(b) == [i \in 1..Len(b) |-> 0]

\* init_weight(m): xavier_normal_ draws the weight at random.
InitWeight ==
    /\ pc = "init_weight"
    /\ IF IsInitTarget(m)
       THEN \E w \in {q \in Params : Len(q) = Len(m.weight)} :
               m' = [m EXCEPT !.weight = w,
                              !.bias = IF m.has_bias THEN ZeroBias(m.bias) ELSE m.bias]
       ELSE m' = m
    /\ pc' = "done"
    /\ UNCHANGED <<op, tcnVars, x0, x, res, textVars, bb, channel>>

\* The temporal stack (construction and forward), ResBlock and init_weight.
Next == TcnNext \/ ResNext \/ InitWeight

Spec == Init /\ [][Next]_vars

\* TemporalConvNet.__init__ alone, on deeper stacks.
NextBuild == TcnInitLevel \/ TcnInitDone

SpecBuild == InitBuildOnly /\ [][NextBuild]_vars

\* TextEncoderTCN: its constructor, and forward through the one-level stack.
NextText ==
    \/ TcnInitLevel \/ TcnInitDone \/ TextForward \/ BlockEnter
    \/ Conv1Step \/ Chomp1Step \/ Relu1Step \/ Dropout1Step
    \/ Conv2Step \/ Chomp2Step \/ Relu2Step \/ Dropout2Step
    \/ DownsampleStep \/ AddStep \/ TcnReturn
    \/ TextTranspose \/ TextDecoder \/ TextMax

SpecText == InitTextOnly /\ [][NextText]_vars

\* BasicBlock.
SpecBasic == InitBasicOnly /\ [][BasicNext]_vars

\* ================================================================= claims
\* C1: at every level of a TemporalConvNet, for every kernel_size >= 1 and
\* every input length L >= 1, each Chomp1d leaves a tensor of time-length L
\* and the block returns a tensor of time-length L.
C1_LengthPreserved ==
    op = "tcn" =>
        /\ pc # "error"
        /\ pc \in {"relu1", "relu2", "block"} => Time(x) = Time(x0)

\* C2: the output of TemporalBlock.forward at position t is computed from the
\* block's input at positions <= t only.
C2_Causal ==
    (pc = "block" /\ lvl >= 2) =>
        \A c \in 1..Chan(x) : \A t \in 1..Time(x) : \A u \in x.dep[c][t] : u <= t

C2_Witness ==
    /\ op = "tcn" /\ pc = "block" /\ lvl = 3
    /\ layers[2].downsample
    /\ kernel_size = 3
    /\ Time(x) = 6
    /\ x.dep[1][6] = {2, 4, 6}

\* C3: level i of the stack has dilation 2^i, output channel count C_i, and
\* input channel count num_inputs (i = 0) or C_(i-1), which is the previous
\* level's output channel count.
C3_Chained ==
    \A i \in 1..Len(layers) :
        /\ layers[i].conv1.d = Pow2(i - 1)
        /\ layers[i].conv2.d = Pow2(i - 1)
        /\ layers[i].n_outputs = num_channels[i]
        /\ layers[i].conv2.cout = num_channels[i]
        /\ layers[i].n_inputs = (IF i = 1 THEN num_inputs ELSE num_channels[i - 1])
        /\ layers[i].conv1.cin = layers[i].n_inputs
        /\ i > 1 => layers[i].n_inputs = layers[i - 1].n_outputs

C3_Witness ==
    /\ op = "build" /\ pc = "built"
    /\ Len(layers) = 3
    /\ num_inputs = 1 /\ num_channels = <<2, 1, 2>>
    /\ layers[3].conv1.d = 4 /\ layers[3].n_inputs = 1 /\ layers[3].n_outputs = 2

\* C4: the 1x1 projection exists iff n_inputs # n_outputs, and the residual
\* operand has the shape of the output of the two-convolution path, so that
\* out + res is defined.
C4_ResidualShape ==
    op = "tcn" =>
        /\ \A i \in 1..Len(layers) :
              layers[i].downsample <=> (layers[i].n_inputs # layers[i].n_outputs)
        /\ pc = "add" => res.shape = x.shape
        /\ pc # "error"

\* C5 as stated: each dilated convolution's output, before Chomp1d, has the
\* time-length of that convolution's input.
C5_SameLengthBeforeChomp ==
    [][(op = "tcn" /\ pc \in {"conv1", "conv2"} /\ pc' \in {"chomp1", "chomp2"})
         => Time(x') = Time(x)]_vars

\* C5 amended: each dilated convolution's output, before Chomp1d, is longer
\* than that convolution's input by the padding (kernel_size - 1) * 2^i.
C5_PaddingLongerBeforeChomp ==
    [][(op = "tcn" /\ pc \in {"conv1", "conv2"} /\ pc' \in {"chomp1", "chomp2"})
         => Time(x') = Time(x) + (kernel_size - 1) * Pow2(lvl - 1)]_vars

C5_Witness ==
    /\ op = "tcn" /\ pc = "chomp2" /\ lvl = 2 /\ kernel_size = 3
    /\ Time(blk) = 5 /\ Time(x) = 9

\* C6: TextEncoderTCN.forward on a (B, T, E) input returns (y, pooled) with y
\* of shape (B, T, word_f) and pooled of shape (B, word_f), pooled[b][f] being
\* the largest y[b][t][f] over t.
C6_TextResult ==
    op = "text" =>
        /\ pc # "error"
        /\ pc = "done" =>
              /\ x.shape = <<x0.shape[1], x0.shape[2], word_f>>
              /\ pooled.shape = <<x0.shape[1], word_f>>
              /\ \A b \in 1..x0.shape[1] : \A f \in 1..word_f :
                    /\ \A t \in 1..x0.shape[2] : pooled.val[b][f] >= yval[b][t][f]
                    /\ \E t \in 1..x0.shape[2] : pooled.val[b][f] = yval[b][t][f]

\* C7: for every constructor configuration and input length, the output of
\* conv1 -> bn1 -> act1 -> conv2 -> bn2 has the channel count and time-length
\* of the shortcut it is added to.
C7_ShortcutShape ==
    (op = "basic" /\ pc = "bb_add") => x.shape = res.shape

\* C8: in ResBlock each convolution keeps the channel count and time-length,
\* the addition meets equal shapes, no layer raises, and forward returns a
\* tensor of the input's shape.
C8_ResShape ==
    op = "res" =>
        /\ pc # "error"
        /\ pc \in {"rb_act", "rb_conv2", "rb_add", "done"} => x.shape = x0.shape
        /\ pc = "rb_add" => res.shape = x.shape

C8_Witness ==
    /\ op = "res" /\ pc = "done"
    /\ x.shape = <<1, 2, 5>>

\* C9: init_weight zeroes every bias element of a Linear, Conv1d or
\* ConvTranspose1d that has a bias, and changes nothing of any other module.
C9_BiasZero ==
    [][(op = "init" /\ pc = "init_weight" /\ pc' = "done") =>
         IF m.kind \in {"Linear", "Conv1d", "ConvTranspose1d"}
         THEN /\ m'.kind = m.kind /\ m'.has_bias = m.has_bias
              /\ Len(m'.bias) = Len(m.bias)
              /\ \A i \in 1..Len(m'.bias) : m'.bias[i] = 0
         ELSE m' = m]_vars

C9_Witness ==
    /\ op = "init" /\ pc = "done"
    /\ m.kind = "Linear" /\ m.has_bias
    /\ m.bias = <<0, 0>>

\* C10: with n levels and kernel_size k >= 2, output position t of the stack
\* reads exactly the input positions from max(first, t - 2(k-1)(2^n - 1)) to t.
LookBack == 2 * (kernel_size - 1) * (Pow2(Len(layers)) - 1)

C10_ReceptiveField ==
    (op = "tcn" /\ pc = "done" /\ kernel_size >= 2) =>
        /\ Len(netdep) = Time(x0)
        /\ \A t \in 1..Len(netdep) : netdep[t] = Max2(1, t - LookBack)..t

C10_Witness ==
    /\ op = "tcn" /\ pc = "done"
    /\ Len(layers) = 2 /\ kernel_size = 2
    /\ Len(netdep) = 8
    /\ netdep[8] = 2..8
    /\ netdep[3] = 1..3

====
